---- MODULE Spec2Model ----
(***************************************************************************)
(* Model of whirlpool-dashboard/ml-api/get_css.py: get_css_links(url) and  *)
(* the __main__ entry point.                                               *)
(*                                                                         *)
(* A Python str is modelled as a sequence of one-character strings, so     *)
(* that startswith, rstrip, lstrip and + are computed character by         *)
(* character.  The remote page is the sequence of tags the parser sees.    *)
(***************************************************************************)
EXTENDS Integers, Sequences, FiniteSets, TLC

VARIABLES
    page,       \* the remote document: a sequence of tags (never changes)
    url,        \* the argument of get_css_links
    pc,         \* position of the single thread of control
    response,   \* response.content of line 9
    soup,       \* the parsed document of line 10
    matched,    \* the ResultSet the for statement of line 13 iterates
    idx,        \* index of the next element of matched
    css_links,  \* the local list of line 12
    exc,        \* the exception raised in the try block, "none" if none
    links,      \* the value get_css_links returned to its caller
    stdout,     \* the lines printed so far
    sent,       \* calls of requests.get made by the current call
    results,    \* one record per completed call: [ok, value, sent]
    printed     \* index of the next element of links the entry point prints

vars == <<page, url, pc, response, soup, matched, idx, css_links, exc,
          links, stdout, sent, results, printed>>

-----------------------------------------------------------------------------
(* Bounds *)

MaxElems == 2       \* longest document
MaxCalls == 2       \* calls of get_css_links made by the repeating caller

-----------------------------------------------------------------------------
(* Strings *)

HTTP == <<"h","t","t","p">>
SLASHSLASH == <<"/","/">>
HTTPS_COLON == <<"h","t","t","p","s",":">>
HTTP_SCHEME == <<"h","t","t","p",":","/","/">>
HTTPS_SCHEME == <<"h","t","t","p","s",":","/","/">>

\* str.startswith(prefix)
StartsWith(s, prefix) ==
    /\ Len(s) >= Len(prefix)
    /\ SubSeq(s, 1, Len(prefix)) = prefix

\* str.rstrip(c) for a one-character argument: removes every trailing c
RECURSIVE RStrip(_, _)
RStrip(s, c) ==
    IF s # <<>> /\ s[Len(s)] = c
    THEN RStrip(SubSeq(s, 1, Len(s) - 1), c)
    ELSE s

\* str.lstrip(c) for a one-character argument: removes every leading c
RECURSIVE LStrip(_, _)
LStrip(s, c) ==
    IF s # <<>> /\ s[1] = c
    THEN LStrip(Tail(s), c)
    ELSE s

-----------------------------------------------------------------------------
(* Inputs *)

\* the literal of line 29
MainUrl == <<"h","t","t","p","s",":","/","/","l","a","n","d","o","n","o",
             "r","r","i","s",".","c","o","m","/">>

\* absolute http(s) page URLs: with one, with no and with two trailing slashes
PageUrls ==
    { MainUrl,
      <<"h","t","t","p","s",":","/","/","e">>,
      <<"h","t","t","p",":","/","/","e","/","/">> }

HrefPrefixes ==
    { <<>>, <<"/">>, SLASHSLASH, HTTP, HTTP_SCHEME, HTTPS_SCHEME }

HrefBodies ==
    { <<>>, <<"a","/","b">> }

\* href values of the documents: absolute, scheme-relative, path-relative,
\* empty, and relative names that merely start with the letters http
Hrefs == { p \o b : p \in HrefPrefixes, b \in HrefBodies }

Tag(name, rel, has_href, href) ==
    [name |-> name, rel |-> rel, has_href |-> has_href, href |-> href]

\* rel is the set of tokens of the attribute, {} when the tag has none
Tags ==
    { Tag("link", {"stylesheet"}, TRUE, h) : h \in Hrefs }
    \cup { Tag("link", {"stylesheet"}, FALSE, <<>>),
           Tag("link", {"alternate", "stylesheet"}, TRUE, <<"b">>),
           Tag("link", {"icon"}, TRUE, <<"i">>),
           Tag("a", {"stylesheet"}, TRUE, <<"x">>) }

RECURSIVE SeqsUpTo(_, _)
SeqsUpTo(S, n) ==
    IF n = 0 THEN { <<>> }
    ELSE LET shorter == SeqsUpTo(S, n - 1)
         IN  shorter \cup { Append(s, e) : s \in shorter, e \in S }

Pages == SeqsUpTo(Tags, MaxElems)

\* exceptions the statements of the try block raise; all derive from Exception
FetchErrors == { "ConnectionError" }
ParseErrors == { "ParserRejectedMarkup" }
LoopErrors == { "MemoryError" }
ExceptionClasses == FetchErrors \cup ParseErrors \cup LoopErrors

-----------------------------------------------------------------------------
(* get_css_links *)

\* slip: the tag name is not part of the filter
IsStylesheetAnyTag(t) == "stylesheet" \in t.rel

\* soup.find_all('link', rel='stylesheet'): the link tags one of whose rel
\* tokens is stylesheet, in document order
IsStylesheetLink(t) == t.name = "link" /\ "stylesheet" \in t.rel

FindAll(doc) == SelectSeq(doc, IsStylesheetLink)

\* href = link.get('href'); if href:  (None and '' are both false)
HrefTruthy(t) == t.has_href /\ t.href # <<>>

\* slip: the two strings are joined as they are, nothing stripped
NormalizeNoStrip(u, href) ==
    IF ~StartsWith(href, HTTP)
    THEN IF StartsWith(href, SLASHSLASH)
         THEN HTTPS_COLON \o href
         ELSE u \o <<"/">> \o href
    ELSE href

\* slip: a scheme-relative href takes the scheme of the page
NormalizePageScheme(u, href) ==
    IF ~StartsWith(href, HTTP)
    THEN IF StartsWith(href, SLASHSLASH)
         THEN (IF StartsWith(u, HTTPS_COLON)
               THEN HTTPS_COLON
               ELSE <<"h","t","t","p",":">>) \o href
         ELSE RStrip(u, "/") \o <<"/">> \o LStrip(href, "/")
    ELSE href

\* lines 17-21
Normalize(u, href) ==
    IF ~StartsWith(href, HTTP)
    THEN IF StartsWith(href, SLASHSLASH)
         THEN HTTPS_COLON \o href
         ELSE RStrip(u, "/") \o <<"/">> \o LStrip(href, "/")
    ELSE href

\* slip: except requests.RequestException as e
CaughtRequestsOnly(e) == e \in FetchErrors

\* except Exception as e
Caught(e) == e \in ExceptionClasses

Line(kind, n, text, msg) == [kind |-> kind, n |-> n, text |-> text, msg |-> msg]

ErrorLine(e) == Line("Error", 0, <<>>, e)
FoundLine(n) == Line("Found", n, <<>>, "")
UrlLine(u) == Line("Url", 0, u, "")

Result(ok, value, n) == [ok |-> ok, value |-> value, sent |-> n]

Init ==
    /\ page \in Pages
    /\ url \in PageUrls
    /\ pc = "main"
    /\ response = <<>>
    /\ soup = <<>>
    /\ matched = <<>>
    /\ idx = 1
    /\ css_links = <<>>
    /\ exc = "none"
    /\ links = <<>>
    /\ stdout = <<>>
    /\ sent = 0
    /\ results = <<>>
    /\ printed = 1

\* line 30: links = get_css_links(url), up to the try statement
Call ==
    /\ pc = "main"
    /\ pc' = "get"
    /\ sent' = 0
    /\ exc' = "none"
    /\ UNCHANGED <<page, url, response, soup, matched, idx, css_links, links,
                   stdout, results, printed>>

\* slip: a failed request is sent a second time before giving up
GetRetry ==
    /\ pc = "get"
    /\ \/ /\ response' = page
          /\ pc' = "parse"
          /\ exc' = exc
          /\ sent' = sent + 1
       \/ /\ \E e \in FetchErrors : exc' = e
          /\ pc' = "except"
          /\ response' = response
          /\ sent' = sent + 2
    /\ UNCHANGED <<page, url, soup, matched, idx, css_links, links, stdout,
                   results, printed>>

\* line 9: response = requests.get(url, headers=headers)
Get ==
    /\ pc = "get"
    /\ sent' = sent + 1
    /\ \/ /\ response' = page
          /\ pc' = "parse"
          /\ exc' = exc
       \/ /\ \E e \in FetchErrors : exc' = e
          /\ pc' = "except"
          /\ response' = response
    /\ UNCHANGED <<page, url, soup, matched, idx, css_links, links, stdout,
                   results, printed>>

\* line 10: soup = BeautifulSoup(response.content, 'html.parser')
Parse ==
    /\ pc = "parse"
    /\ \/ /\ soup' = response
          /\ pc' = "init"
          /\ exc' = exc
       \/ /\ \E e \in ParseErrors : exc' = e
          /\ pc' = "except"
          /\ soup' = soup
    /\ UNCHANGED <<page, url, response, matched, idx, css_links, links,
                   stdout, sent, results, printed>>

\* slip: the list outlives the call (a module-level or default-argument list)
InitListKeep ==
    /\ pc = "init"
    /\ pc' = "find"
    /\ UNCHANGED <<page, url, response, soup, matched, idx, css_links, exc,
                   links, stdout, sent, results, printed>>

\* line 12: css_links = []
InitList ==
    /\ pc = "init"
    /\ css_links' = <<>>
    /\ pc' = "find"
    /\ UNCHANGED <<page, url, response, soup, matched, idx, exc, links,
                   stdout, sent, results, printed>>

\* line 13: the iterable of the for statement
Find ==
    /\ pc = "find"
    /\ matched' = FindAll(soup)
    /\ idx' = 1
    /\ pc' = "loop"
    /\ UNCHANGED <<page, url, response, soup, css_links, exc, links, stdout,
                   sent, results, printed>>

\* slip: an href already in the list is not appended again
LoopBodyDedup ==
    /\ pc = "loop"
    /\ idx <= Len(matched)
    /\ \/ /\ css_links' =
                IF /\ HrefTruthy(matched[idx])
                   /\ \A k \in 1..Len(css_links) :
                          css_links[k] # Normalize(url, matched[idx].href)
                THEN Append(css_links, Normalize(url, matched[idx].href))
                ELSE css_links
          /\ idx' = idx + 1
          /\ UNCHANGED <<pc, exc>>
       \/ /\ \E e \in LoopErrors : exc' = e
          /\ pc' = "except"
          /\ UNCHANGED <<css_links, idx>>
    /\ UNCHANGED <<page, url, response, soup, matched, links, stdout, sent,
                   results, printed>>

\* lines 13-22: one iteration of the for statement
LoopBody ==
    /\ pc = "loop"
    /\ idx <= Len(matched)
    /\ \/ /\ css_links' = IF HrefTruthy(matched[idx])
                          THEN Append(css_links, Normalize(url, matched[idx].href))
                          ELSE css_links
          /\ idx' = idx + 1
          /\ UNCHANGED <<pc, exc>>
       \/ /\ \E e \in LoopErrors : exc' = e
          /\ pc' = "except"
          /\ UNCHANGED <<css_links, idx>>
    /\ UNCHANGED <<page, url, response, soup, matched, links, stdout, sent,
                   results, printed>>

\* line 23: return css_links
Return ==
    /\ pc = "loop"
    /\ idx > Len(matched)
    /\ links' = css_links
    /\ results' = Append(results, Result(TRUE, css_links, sent))
    /\ pc' = "returned"
    /\ UNCHANGED <<page, url, response, soup, matched, idx, css_links, exc,
                   stdout, sent, printed>>

\* slip: the handler returns css_links, the part collected so far
ExceptPartial ==
    /\ pc = "except"
    /\ IF Caught(exc)
       THEN /\ stdout' = Append(stdout, ErrorLine(exc))
            /\ links' = css_links
            /\ results' = Append(results, Result(FALSE, css_links, sent))
            /\ pc' = "returned"
       ELSE /\ pc' = "raised"
            /\ UNCHANGED <<stdout, links, results>>
    /\ UNCHANGED <<page, url, response, soup, matched, idx, css_links, exc,
                   sent, printed>>

\* lines 24-26: except Exception as e: print(f"Error: {e}"); return []
Except ==
    /\ pc = "except"
    /\ IF Caught(exc)
       THEN /\ stdout' = Append(stdout, ErrorLine(exc))
            /\ links' = <<>>
            /\ results' = Append(results, Result(FALSE, <<>>, sent))
            /\ pc' = "returned"
       ELSE /\ pc' = "raised"
            /\ UNCHANGED <<stdout, links, results>>
    /\ UNCHANGED <<page, url, response, soup, matched, idx, css_links, exc,
                   sent, printed>>

-----------------------------------------------------------------------------
(* __main__ *)

\* slip: the count line reports the link elements found, not the results
PrintCountMatched ==
    /\ pc = "returned"
    /\ stdout' = Append(stdout, FoundLine(Len(matched)))
    /\ printed' = 1
    /\ pc' = "print"
    /\ UNCHANGED <<page, url, response, soup, matched, idx, css_links, exc,
                   links, sent, results>>

\* line 31: print(f"Found {len(links)} CSS files:")
PrintCount ==
    /\ pc = "returned"
    /\ stdout' = Append(stdout, FoundLine(Len(links)))
    /\ printed' = 1
    /\ pc' = "print"
    /\ UNCHANGED <<page, url, response, soup, matched, idx, css_links, exc,
                   links, sent, results>>

\* lines 32-33: for link in links: print(link)
PrintLink ==
    /\ pc = "print"
    /\ printed <= Len(links)
    /\ stdout' = Append(stdout, UrlLine(links[printed]))
    /\ printed' = printed + 1
    /\ UNCHANGED <<page, url, pc, response, soup, matched, idx, css_links,
                   exc, links, sent, results>>

\* end of the script
Exit ==
    /\ pc = "print"
    /\ printed > Len(links)
    /\ pc' = "done"
    /\ UNCHANGED <<page, url, response, soup, matched, idx, css_links, exc,
                   links, stdout, sent, results, printed>>

\* a caller that calls get_css_links(url) again with the same url
CallAgain ==
    /\ pc = "returned"
    /\ Len(results) < MaxCalls
    /\ pc' = "get"
    /\ sent' = 0
    /\ exc' = "none"
    /\ UNCHANGED <<page, url, response, soup, matched, idx, css_links, links,
                   stdout, results, printed>>

Next ==
    \/ Call
    \/ Get
    \/ Parse
    \/ InitList
    \/ Find
    \/ LoopBody
    \/ Return
    \/ Except
    \/ PrintCount
    \/ PrintLink
    \/ Exit

Spec == Init /\ [][Next]_vars

NextTwice ==
    \/ Next
    \/ CallAgain

SpecTwice == Init /\ [][NextTwice]_vars

-----------------------------------------------------------------------------
(* Properties.  They are stated over the page and the url, without the     *)
(* operators of the model above wherever the model is what is checked.     *)

\* a call of get_css_links has completed; exc and links describe it
Returned == pc \in {"returned", "print", "done"}

ReturnedOk == Returned /\ exc = "none"

\* a link tag the rel='stylesheet' filter selects
IsStyle(t) == t.name = "link" /\ "stylesheet" \in t.rel

StyleTags == SelectSeq(page, IsStyle)

\* a stylesheet link tag with a non-empty href
HasUsableHref(t) == IsStyle(t) /\ t.has_href /\ Len(t.href) > 0

UsableTags == SelectSeq(page, HasUsableHref)

BeginsHttp(h) == Len(h) >= 4 /\ h[1] = "h" /\ h[2] = "t" /\ h[3] = "t" /\ h[4] = "p"

BeginsSlashSlash(h) == Len(h) >= 2 /\ h[1] = "/" /\ h[2] = "/"

HasScheme(s) ==
    \/ Len(s) >= 7 /\ SubSeq(s, 1, 7) = <<"h","t","t","p",":","/","/">>
    \/ Len(s) >= 8 /\ SubSeq(s, 1, 8) = <<"h","t","t","p","s",":","/","/">>

ErrorCount(out) == Cardinality({ i \in DOMAIN out : out[i].kind = "Error" })

\* C1: every entry of the list get_css_links returns begins with http:// or
\* https://; no relative href is returned uncorrected.
C1_EveryEntryHasScheme ==
    ReturnedOk => \A i \in DOMAIN links : HasScheme(links[i])

\* C2: when the fetch or the parse fails, get_css_links prints one Error line
\* and returns the empty sequence, and the exception never reaches the caller.
C2_FailureReturnsEmpty ==
    /\ pc # "raised"
    /\ (Returned /\ exc # "none") =>
          /\ links = <<>>
          /\ ~results[Len(results)].ok
          /\ results[Len(results)].value = <<>>
          /\ stdout[1] = ErrorLine(exc)
          /\ ErrorCount(stdout) = 1

C2_Witness ==
    /\ pc = "returned"
    /\ exc \in ParseErrors
    /\ links = <<>>
    /\ stdout = <<ErrorLine(exc)>>

AllAbsolute ==
    \A i \in DOMAIN StyleTags :
        StyleTags[i].has_href /\ BeginsHttp(StyleTags[i].href)

\* C3: when every stylesheet link carries an href that begins with http, the
\* result is exactly those hrefs, unchanged, in document order, repeated
\* hrefs kept.
C3_AbsoluteHrefsUnchanged ==
    (ReturnedOk /\ AllAbsolute) =>
        /\ Len(links) = Len(StyleTags)
        /\ \A i \in DOMAIN StyleTags : links[i] = StyleTags[i].href

C3_Witness ==
    /\ ReturnedOk
    /\ AllAbsolute
    /\ Len(links) = 2
    /\ links[1] = links[2]
    /\ links[1] = StyleTags[1].href

PathRelative(h) == ~BeginsHttp(h) /\ ~BeginsSlashSlash(h)

\* e is u without its trailing slashes, one slash, h without its leading ones
JoinOf(u, h, e) ==
    \E k \in 0..Len(u), m \in 0..Len(h) :
        /\ \A i \in (k + 1)..Len(u) : u[i] = "/"
        /\ k = 0 \/ u[k] # "/"
        /\ \A i \in 1..m : h[i] = "/"
        /\ m = Len(h) \/ h[m + 1] # "/"
        /\ e = SubSeq(u, 1, k) \o <<"/">> \o SubSeq(h, m + 1, Len(h))

C5_SchemeRelativeHttps ==
    ReturnedOk =>
        /\ Len(links) = Len(UsableTags)
        /\ \A i \in DOMAIN UsableTags :
              BeginsSlashSlash(UsableTags[i].href) =>
                  links[i] = <<"h","t","t","p","s",":">> \o UsableTags[i].href

C5_Witness ==
    /\ ReturnedOk
    /\ url = <<"h","t","t","p",":","/","/","e","/","/">>
    /\ Len(links) = Len(UsableTags)
    /\ \E i \in DOMAIN UsableTags :
          /\ UsableTags[i].href = <<"/","/","a","/","b">>
          /\ links[i] = <<"h","t","t","p","s",":","/","/","a","/","b">>

\* C6 as stated: on success the length of the result is the number of
\* stylesheet link elements that have an href attribute.
C6_CountsEveryHrefAttribute ==
    ReturnedOk =>
        Len(links) = Cardinality({ i \in DOMAIN page :
                                     IsStyle(page[i]) /\ page[i].has_href })

\* C6 amended: on success the length of the result is the number of
\* stylesheet link elements that have a non-empty href; a stylesheet link
\* without an href, or with an empty one, and every other element contribute
\* nothing, and nothing is printed for them.
C6_CountsNonEmptyHrefs ==
    ReturnedOk =>
        /\ Len(links) = Cardinality({ i \in DOMAIN page :
                                        /\ IsStyle(page[i])
                                        /\ page[i].has_href
                                        /\ page[i].href # <<>> })
        /\ ErrorCount(stdout) = 0

C6_Witness ==
    /\ ReturnedOk
    /\ Len(page) = 2
    /\ Len(links) = 1
    /\ \E i \in DOMAIN page : IsStyle(page[i]) /\ ~page[i].has_href

\* C7: the entry point prints, on success, the line Found N CSS files: with
\* N the length of the result and then the N result URLs in order, no Error
\* line; on failure one Error line, then Found 0 CSS files:, nothing more.
C7_OutputOrder ==
    LET value == results[1].value
        n == Len(value)
    IN  /\ (pc = "returned" /\ exc = "none") => stdout = <<>>
        /\ (pc = "returned" /\ exc # "none") => stdout = <<ErrorLine(exc)>>
        /\ (pc \in {"print", "done"} /\ exc # "none") =>
              stdout = <<ErrorLine(exc), FoundLine(0)>>
        /\ (pc \in {"print", "done"} /\ exc = "none") =>
              /\ Len(stdout) >= 1
              /\ Len(stdout) <= 1 + n
              /\ stdout[1] = FoundLine(n)
              /\ \A i \in 2..Len(stdout) : stdout[i] = UrlLine(value[i - 1])
        /\ (pc = "done" /\ exc = "none") => Len(stdout) = 1 + n

C7_Witness ==
    /\ pc = "done"
    /\ exc = "none"
    /\ Len(links) = 2
    /\ links[1] # links[2]
    /\ stdout = <<FoundLine(2), UrlLine(links[1]), UrlLine(links[2])>>

\* C8: every call of get_css_links makes exactly one request, whether it
\* succeeds or fails, and an Error line is written only for a failed call.
C8_OneRequestPerCall ==
    /\ sent <= 1
    /\ pc \in {"parse", "init", "find", "loop", "except"} => sent = 1
    /\ \A i \in DOMAIN results : results[i].sent = 1
    /\ ErrorCount(stdout) =
          Cardinality({ i \in DOMAIN results : ~results[i].ok })

C8_Witness ==
    /\ Len(results) = 2
    /\ ~results[1].ok
    /\ results[2].ok
    /\ results[1].sent = 1
    /\ results[2].sent = 1
    /\ ErrorCount(stdout) = 1

\* C9: two calls with the same URL against the unchanged page return the same
\* sequence; the first call leaves nothing behind that changes the second.
C9_Idempotent ==
    \A i, j \in DOMAIN results :
        (results[i].ok /\ results[j].ok) => results[i].value = results[j].value

C9_Witness ==
    /\ Len(results) = 2
    /\ results[1].ok
    /\ results[2].ok
    /\ Len(results[1].value) = 2
    /\ results[1].value = results[2].value

\* C10: a failure after some URLs were collected returns the empty
\* sequence, not the part collected; a non-empty result comes from a
\* response processed to its last link element.
C10_NoPartialResult ==
    pc = "returned" =>
        /\ exc # "none" => links = <<>>
        /\ links # <<>> =>
              /\ exc = "none"
              /\ matched = StyleTags
              /\ idx = Len(matched) + 1

C10_Witness ==
    /\ pc = "returned"
    /\ exc \in LoopErrors
    /\ css_links # <<>>
    /\ links = <<>>

====
